---- MODULE Spec2Model ----
(***************************************************************************)
(* The ReACT loop of promptline-rust's Agent (src/src/agent/mod.rs):       *)
(* Agent::run, Agent::execute_tool_call, Agent::parse_tool_call and        *)
(* Agent::is_complete, driven by a language model, a permission manager,   *)
(* a safety validator and a tool registry; with them the text that        *)
(* handle_chat (src/src/main.rs) shows after a run and                     *)
(* CommandHandler::parse (src/src/commands.rs).                            *)
(*                                                                         *)
(* Texts are sequences of tokens.  A string token stands for a word, a     *)
(* JSON punctuation mark, a JSON key with its colon, or a JSON scalar.     *)
(* One step of the model is the code that runs between two suspension      *)
(* points of run(): the model call, the interactive prompt and the tool    *)
(* execution.                                                              *)
(***************************************************************************)
EXTENDS Integers, Sequences, FiniteSets, TLC

\* ------------------------------------------------------------------ bounds
\* config.safety.max_iterations ranges over 1..MaxIter
MaxIter == 3
\* run() is called at most MaxRuns times on one agent (chat mode)
MaxRuns == 2
\* the model answers at most MaxCalls chat requests in all
MaxCalls == 3

\* ------------------------------------------------------------------ texts
WS == " "
Keys == {"tool:", "args:", "note:"}
Strs == {"file_list", "file_write", "nope", "ls", "rm-rf", "sudo"}
Nums == {"42"}
Scalars == Strs \cup Nums

\* the capabilities registered in the registry (tools.register)
Registered == {"file_list", "file_write"}
\* every name a proposed action of the model carries
Names == {"file_list", "file_write", "nope"}
Levels == {"Never", "Always", "Once", "Ask"}

\* str::trim: drop the whitespace at both ends
RECURSIVE TrimStart(_)
TrimStart(s) ==
    IF s # <<>> /\ Head(s) = WS THEN TrimStart(Tail(s)) ELSE s

\* a trim that leaves the whitespace at the end in place
TrimEndNone(s) == s

RECURSIVE TrimEnd(_)
TrimEnd(s) ==
    IF s # <<>> /\ s[Len(s)] = WS THEN TrimEnd(SubSeq(s, 1, Len(s) - 1)) ELSE s

Trim(s) == TrimEnd(TrimStart(s))

Contains(s, tok) == \E i \in 1..Len(s) : s[i] = tok

\* Agent::is_complete
is_complete(content) ==
    \/ LET t == Trim(content) IN t # <<>> /\ t[Len(t)] = "FINISH"
    \/ Contains(content, "task is complete")

\* str::find('{') and str::rfind('}'): 0 stands for None
FindOpen(content) ==
    IF Contains(content, "{")
    THEN CHOOSE i \in 1..Len(content) :
            content[i] = "{" /\ \A j \in 1..(i - 1) : content[j] # "{"
    ELSE 0

RFindClose(content) ==
    IF Contains(content, "}")
    THEN CHOOSE i \in 1..Len(content) :
            content[i] = "}" /\ \A j \in (i + 1)..Len(content) : content[j] # "}"
    ELSE 0

\* insignificant whitespace of a JSON text
Compact(s) == SelectSeq(s, LAMBDA t : t # WS)

\* serde_json::from_str on a compacted token sequence: the index after the
\* value that starts at i, or 0 when there is no well-formed value there
RECURSIVE ValueEnd(_, _), MembersEnd(_, _)
ValueEnd(t, i) ==
    IF i > Len(t) THEN 0
    ELSE IF t[i] \in Scalars THEN i + 1
    ELSE IF t[i] = "{" THEN MembersEnd(t, i + 1)
    ELSE 0

MembersEnd(t, i) ==
    IF i > Len(t) THEN 0
    ELSE IF t[i] = "}" THEN i + 1
    ELSE IF t[i] \in Keys
         THEN LET j == ValueEnd(t, i + 1) IN IF j = 0 THEN 0 ELSE MembersEnd(t, j)
         ELSE 0

ValidJson(t) == t # <<>> /\ ValueEnd(t, 1) = Len(t) + 1

\* Value::get(key) on the top-level object t (a valid JSON text): the tokens
\* of the member's value, <<>> when the key is absent; a repeated key keeps
\* its last value
RECURSIVE GetFrom(_, _, _, _)
GetFrom(t, i, key, acc) ==
    IF i > Len(t) \/ t[i] = "}" THEN acc
    ELSE LET j == ValueEnd(t, i + 1)
         IN  GetFrom(t, j, key,
                     IF t[i] = key THEN SubSeq(t, i + 1, j - 1) ELSE acc)

Get(t, key) == GetFrom(t, 2, key, <<>>)

\* Option<ParsedToolCall>::None
NoCall == [name |-> "", args |-> <<>>]

\* &content[start..=end] with start > end + 1: the slice index is out of
\* order and the thread panics; parse_tool_call returns nothing
SlicePanic == [name |-> "<panic>", args |-> <<>>]

\* Agent::parse_tool_call; the slice start..=end is empty, and no JSON text,
\* when the last closing brace stands just before the first opening one
parse_tool_call(content) ==
    LET start == FindOpen(content)
        end == RFindClose(content)
    IN  IF start = 0 \/ end = 0 THEN NoCall
        ELSE IF end + 1 < start THEN SlicePanic
        ELSE LET json == Compact(SubSeq(content, start, end))
             IN  IF ~ValidJson(json) THEN NoCall
                 ELSE LET tool == Get(json, "tool:")
                          args == Get(json, "args:")
                      IN  IF Len(tool) = 1 /\ tool[1] \in Strs /\ args # <<>>
                          THEN [name |-> tool[1], args |-> args]
                          ELSE NoCall

\* format!("{} {}", tool_call.name, tool_call.args)
command_str(tc) == <<tc.name, WS>> \o tc.args


\* ------------------------------------------------------ collaborators
\* SafetyValidator::validate_command: a pure function of the command string
Allowed == [kind |-> "Allowed", reason |-> <<>>]
RequiresApproval == [kind |-> "RequiresApproval", reason |-> <<>>]
Denied(reason) == [kind |-> "Denied", reason |-> reason]

validate_command(cmd) ==
    IF Contains(cmd, "rm-rf") THEN Denied(<<"dangerous", WS, "command">>)
    ELSE IF Contains(cmd, "sudo") THEN RequiresApproval
    ELSE Allowed

\* PermissionManager::check_permission: the level it returns for the name
check_permission(p, name) == p[name]

\* the permission state after check_permission: a Once grant is used up by
\* the invocation that is being checked
after_check(p, name) ==
    IF p[name] = "Once" THEN [p EXCEPT ![name] = "Ask"] ELSE p

\* the replies a user can give to PermissionManager::prompt_for_permission
Replies == {"always", "once", "never", "no"}

\* prompt_for_permission: Ok(allowed)
prompt_allowed(reply) == reply \in {"always", "once"}

\* prompt_for_permission: the permission state it leaves behind; a "once"
\* grant covers the invocation being prompted for and the state is Ask after
after_prompt(p, name, reply) ==
    IF reply = "always" THEN [p EXCEPT ![name] = "Always"]
    ELSE IF reply = "never" THEN [p EXCEPT ![name] = "Never"]
    ELSE p

\* ToolResult values a registered tool can return
ToolResults ==
    { [success |-> TRUE, output |-> <<"out">>, error |-> <<>>],
      [success |-> FALSE, output |-> <<"out">>, error |-> <<"failed">>],
      [success |-> FALSE, output |-> <<"partial">>, error |-> <<>>] }

\* what the model can answer
Responses ==
    { <<"FINISH">>,
      <<"done.", "FINISH", WS>>,
      <<"thinking">>,
      <<"I will", WS, "{", "tool:", "file_list", WS, "args:", "{", "}", "}">>,
      <<"{", "tool:", "file_write", "args:", "ls", "}">>,
      <<"{", "tool:", "file_write", "args:", "rm-rf", "}">>,
      <<"{", "tool:", "file_write", "args:", "{", "note:", "sudo", "}", "}">>,
      <<"{", "tool:", "nope", "args:", "{", "}", "}">>,
      <<"{", "tool:", "file_list", "args:", "{", "}", "}", WS,
        "{", "tool:", "file_write", "args:", "ls", "}">>,
      <<"}", WS, "{">> }

Tasks == { <<"List", WS, "the", WS, "files">> }

\* Agent::build_system_prompt
build_system_prompt == <<"You are PromptLine">>

\* Message::system, Message::user, Message::assistant
Message(role, content) == [role |-> role, content |-> content]

\* -------------------------------------------------------------- state
VARIABLES
    max_iterations,        \* config.safety.max_iterations
    require_approval,      \* config.safety.require_approval
    permissions,           \* permission_manager: name -> level
    iteration_count,       \* Agent.iteration_count
    conversation_history,  \* Agent.conversation_history
    tool_calls,            \* run()'s local tool_calls
    pc,                    \* where run() is suspended
    pending,               \* the ParsedToolCall being gated or executed
    response,              \* the content of the last model response
    result,                \* what the last run() returned
    gate,                  \* history: what the gate did for the current action
    model_calls,           \* history: model calls made in this run
    executions,            \* history: tool executions of this run
    plain,                 \* history: action-free responses of this run
    runs,                  \* history: number of run() calls
    total_calls,           \* history: model calls answered in all
    input,                 \* the line handed to CommandHandler::parse
    command                \* what CommandHandler::parse returned for it

vars == <<max_iterations, require_approval, permissions, iteration_count, conversation_history,
          tool_calls, pc, pending, response, result, gate, model_calls,
          executions, plain, runs, total_calls, input, command>>

\* no run() has returned yet
NoResult ==
    [kind |-> "none", success |-> FALSE, output |-> <<>>, iterations |-> 0,
     tool_calls |-> <<>>, error |-> "", detail |-> <<>>]

\* Ok(AgentResult { .. })
OkResult(success, output, iterations, calls) ==
    [kind |-> "ok", success |-> success, output |-> output,
     iterations |-> iterations, tool_calls |-> calls, error |-> "",
     detail |-> <<>>]

\* Err(..)
ErrResult(error, detail) ==
    [kind |-> "err", success |-> FALSE, output |-> <<>>, iterations |-> 0,
     tool_calls |-> <<>>, error |-> error, detail |-> detail]

\* run() unwound by a panic: it returns neither Ok nor Err
PanicResult ==
    [kind |-> "panic", success |-> FALSE, output |-> <<>>, iterations |-> 0,
     tool_calls |-> <<>>, error |-> "", detail |-> <<>>]

\* Option<SlashCommand>::None
NoCommand == "None"

\* CommandHandler::parse has not been called
NotParsed == "<unparsed>"

\* nothing has been gated in this iteration
NoGate ==
    [level |-> "", prompted |-> 0, reply |-> "", validated |-> FALSE,
     cmd |-> <<>>, outcome |-> Allowed, iter |-> 0, executed |-> FALSE]

\* the agent's state as one record, so that a handler is a composition of
\* the steps of its code
State ==
    [max_iterations |-> max_iterations,
     require_approval |-> require_approval, permissions |-> permissions,
     iteration_count |-> iteration_count,
     conversation_history |-> conversation_history,
     tool_calls |-> tool_calls, pc |-> pc, pending |-> pending,
     response |-> response, result |-> result, gate |-> gate,
     model_calls |-> model_calls, executions |-> executions,
     plain |-> plain, runs |-> runs, total_calls |-> total_calls]

Becomes(s) ==
    /\ max_iterations' = s.max_iterations
    /\ require_approval' = s.require_approval
    /\ permissions' = s.permissions
    /\ iteration_count' = s.iteration_count
    /\ conversation_history' = s.conversation_history
    /\ tool_calls' = s.tool_calls
    /\ pc' = s.pc
    /\ pending' = s.pending
    /\ response' = s.response
    /\ result' = s.result
    /\ gate' = s.gate
    /\ model_calls' = s.model_calls
    /\ executions' = s.executions
    /\ plain' = s.plain
    /\ runs' = s.runs
    /\ total_calls' = s.total_calls
    /\ UNCHANGED <<input, command>>

\* Agent::new: everything but config.safety.require_approval
InitAgent ==
    /\ max_iterations \in 1..MaxIter
    /\ permissions \in [Names -> Levels]
    /\ iteration_count = 0
    /\ conversation_history = <<>>
    /\ tool_calls = <<>>
    /\ pc = "idle"
    /\ pending = NoCall
    /\ response = <<>>
    /\ result = NoResult
    /\ gate = NoGate
    /\ model_calls = 0
    /\ executions = <<>>
    /\ plain = 0
    /\ runs = 0
    /\ total_calls = 0
    /\ input = <<>>
    /\ command = NotParsed

\* the agent of a configuration that requires approval
Init == InitAgent /\ require_approval = TRUE

\* the agent under --auto-approve: config.safety.require_approval = false
InitAutoApprove == InitAgent /\ require_approval = FALSE


\* ------------------------------------------------------ Agent::run
\* the budget test off by one, aborting one pass early
ExceedsBudgetEarly(count, max) == count >= max

\* the budget test off by one, aborting one pass late
ExceedsBudgetLate(count, max) == count > max + 1

\* no budget test at all
ExceedsBudgetNever(count, max) == FALSE

\* run(): if self.iteration_count > self.config.safety.max_iterations
ExceedsBudget(count, max) == count > max

\* run(): one pass of the loop up to the model call: the counter goes up by
\* one and the run aborts when the budget is exceeded
LoopPass(s) ==
    LET count == s.iteration_count + 1
    IN  IF ExceedsBudget(count, s.max_iterations)
        THEN [s EXCEPT !.iteration_count = count, !.pc = "done",
                       !.result = ErrResult("MaxIterationsExceeded", <<>>)]
        ELSE [s EXCEPT !.iteration_count = count, !.pc = "chat"]

\* a run that starts from an empty history
RunStartClears(s, task) ==
    LoopPass([s EXCEPT
        !.iteration_count = 0,
        !.conversation_history =
            << Message("system", build_system_prompt), Message("user", task) >>,
        !.tool_calls = <<>>,
        !.pending = NoCall, !.response = <<>>, !.result = NoResult,
        !.gate = NoGate, !.model_calls = 0, !.executions = <<>>,
        !.plain = 0, !.runs = @ + 1])

\* run(): from its entry to the first model call
RunStart(s, task) ==
    LoopPass([s EXCEPT
        !.iteration_count = 0,
        !.conversation_history =
            Append(Append(@, Message("system", build_system_prompt)),
                   Message("user", task)),
        !.tool_calls = <<>>,
        !.pending = NoCall, !.response = <<>>, !.result = NoResult,
        !.gate = NoGate, !.model_calls = 0, !.executions = <<>>,
        !.plain = 0, !.runs = @ + 1])

\* the completing result counting tool calls where it should count iterations
CompleteResultCountsCalls(content, iterations, calls) ==
    OkResult(TRUE, content, Len(calls), calls)

\* run(): the AgentResult returned when the response completes the task
CompleteResult(content, iterations, calls) ==
    OkResult(TRUE, content, iterations, calls)

\* ------------------------------------------ Agent::execute_tool_call
\* the Never arm falling through to the granted arm
IsNeverIgnored(level) == FALSE

\* match permission_level: PermissionLevel::Never
IsNever(level) == level = "Never"

\* the Ask arm falling through to the granted arm
NeedsPromptIgnored(level) == FALSE

\* match permission_level: PermissionLevel::Ask
NeedsPrompt(level) == level = "Ask"

\* the reply of the prompt ignored
DeclineIgnored(allowed) == FALSE

\* if !allowed { return Ok(AgentResult { success: false, .. }) }
DeclineStops(allowed) == ~allowed

\* the Denied arm falling through like the other two
BlocksNothing(outcome) == FALSE

\* match validate_command(..): ValidationResult::Denied(reason) => return Err
Blocks(outcome) == outcome.kind = "Denied"

\* a name recorded once however often it is executed
PushToolCallOnce(calls, name) ==
    IF \E i \in 1..Len(calls) : calls[i] = name THEN calls
    ELSE Append(calls, name)

\* tool_calls.push(tool_call.name.clone())
PushToolCall(calls, name) == Append(calls, name)

\* the RequiresApproval arm asking the user once more
ValidatePromptsAgain(s, tc) ==
    LET cmd == command_str(tc)
        outcome == validate_command(cmd)
        g == [s.gate EXCEPT !.validated = TRUE, !.cmd = cmd,
                            !.outcome = outcome]
    IN  IF outcome.kind = "Denied"
        THEN [s EXCEPT !.gate = g, !.pc = "done",
                       !.result = ErrResult("Safety", outcome.reason)]
        ELSE IF outcome.kind = "RequiresApproval"
        THEN [s EXCEPT !.gate = g, !.pc = "prompt", !.pending = tc]
        ELSE [s EXCEPT !.gate = g, !.pc = "execute", !.pending = tc,
                       !.tool_calls = Append(@, tc.name)]

\* execute_tool_call: from the validation to the call of tools.execute
Validate(s, tc) ==
    LET cmd == command_str(tc)
        outcome == validate_command(cmd)
        g == [s.gate EXCEPT !.validated = TRUE, !.cmd = cmd,
                            !.outcome = outcome]
    IN  IF Blocks(outcome)
        THEN [s EXCEPT !.gate = g, !.pc = "done",
                       !.result = ErrResult("Safety", outcome.reason)]
        ELSE [s EXCEPT !.gate = g, !.pc = "execute", !.pending = tc,
                       !.tool_calls = PushToolCall(@, tc.name)]

\* the validator consulted before the permission gate
ExecuteToolCallValidatesFirst(s, tc) ==
    LET level == check_permission(s.permissions, tc.name)
        s1 == [s EXCEPT
                 !.permissions = after_check(@, tc.name),
                 !.pending = tc,
                 !.gate = [NoGate EXCEPT !.level = level,
                                         !.iter = s.iteration_count]]
        s2 == Validate(s1, tc)
    IN  IF s2.pc = "done" THEN s2
        ELSE IF IsNever(level)
        THEN [s1 EXCEPT !.pc = "done",
                        !.result = ErrResult("PermissionDenied", <<tc.name>>)]
        ELSE IF NeedsPrompt(level) THEN [s1 EXCEPT !.pc = "prompt"]
        ELSE s2

\* execute_tool_call: from its entry to the prompt, the call of
\* tools.execute or its return
ExecuteToolCall(s, tc) ==
    LET level == check_permission(s.permissions, tc.name)
        s1 == [s EXCEPT
                 !.permissions = after_check(@, tc.name),
                 !.pending = tc,
                 !.gate = [NoGate EXCEPT !.level = level,
                                         !.iter = s.iteration_count]]
    IN  IF IsNever(level)
        THEN [s1 EXCEPT !.pc = "done",
                        !.result = ErrResult("PermissionDenied", <<tc.name>>)]
        ELSE IF NeedsPrompt(level) THEN [s1 EXCEPT !.pc = "prompt"]
        ELSE Validate(s1, tc)

\* the response appended to the history whether or not it holds an action
OnResponseAlwaysAppends(s, content) ==
    LET s1 == [s EXCEPT !.response = content, !.model_calls = @ + 1,
                        !.total_calls = @ + 1, !.gate = NoGate,
                        !.pending = NoCall]
        s2 == [s1 EXCEPT !.conversation_history =
                             Append(@, Message("assistant", content))]
        tc == parse_tool_call(content)
    IN  IF is_complete(content)
        THEN [s1 EXCEPT !.pc = "done",
                        !.result = OkResult(TRUE, content, s.iteration_count,
                                            s.tool_calls)]
        ELSE IF tc = SlicePanic
        THEN [s1 EXCEPT !.pc = "panicked", !.result = PanicResult]
        ELSE IF tc # NoCall THEN ExecuteToolCall(s2, tc)
        ELSE LoopPass([s2 EXCEPT !.plain = @ + 1])

\* the action of a response looked for before the completion test
OnResponseActsFirst(s, content) ==
    LET s1 == [s EXCEPT !.response = content, !.model_calls = @ + 1,
                        !.total_calls = @ + 1, !.gate = NoGate,
                        !.pending = NoCall]
        tc == parse_tool_call(content)
    IN  IF tc = SlicePanic
        THEN [s1 EXCEPT !.pc = "panicked", !.result = PanicResult]
        ELSE IF tc # NoCall THEN ExecuteToolCall(s1, tc)
        ELSE IF is_complete(content)
        THEN [s1 EXCEPT !.pc = "done",
                        !.result = CompleteResult(content, s.iteration_count,
                                                  s.tool_calls)]
        ELSE LoopPass([s1 EXCEPT
                 !.conversation_history =
                     Append(@, Message("assistant", content)),
                 !.plain = @ + 1])

\* run(): from the model's response to the next suspension point or return
OnResponse(s, content) ==
    LET s1 == [s EXCEPT !.response = content, !.model_calls = @ + 1,
                        !.total_calls = @ + 1, !.gate = NoGate,
                        !.pending = NoCall]
        tc == parse_tool_call(content)
    IN  IF is_complete(content)
        THEN [s1 EXCEPT !.pc = "done",
                        !.result = CompleteResult(content, s.iteration_count,
                                                  s.tool_calls)]
        ELSE IF tc = SlicePanic
        THEN [s1 EXCEPT !.pc = "panicked", !.result = PanicResult]
        ELSE IF tc # NoCall THEN ExecuteToolCall(s1, tc)
        ELSE LoopPass([s1 EXCEPT
                 !.conversation_history =
                     Append(@, Message("assistant", content)),
                 !.plain = @ + 1])

\* a decline written into the permission state as Never
OnPromptReplyDeclineNever(s, reply) ==
    LET tc == s.pending
        s1 == [s EXCEPT
                 !.permissions =
                     IF prompt_allowed(reply)
                     THEN after_prompt(@, tc.name, reply)
                     ELSE [@ EXCEPT ![tc.name] = "Never"],
                 !.gate = [@ EXCEPT !.prompted = @ + 1, !.reply = reply]]
    IN  IF ~prompt_allowed(reply)
        THEN [s1 EXCEPT !.pc = "done",
                        !.result = OkResult(FALSE, <<"Permission denied.">>,
                                            s.iteration_count, s.tool_calls)]
        ELSE Validate(s1, tc)

\* execute_tool_call and run(): from the user's reply to the prompt on
OnPromptReply(s, reply) ==
    LET tc == s.pending
        s1 == [s EXCEPT
                 !.permissions = after_prompt(@, tc.name, reply),
                 !.gate = [@ EXCEPT !.prompted = @ + 1, !.reply = reply]]
    IN  IF DeclineStops(prompt_allowed(reply))
        THEN [s1 EXCEPT !.pc = "done",
                        !.result = OkResult(FALSE, <<"Permission denied.">>,
                                            s.iteration_count, s.tool_calls)]
        ELSE Validate(s1, tc)

\* result_text of execute_tool_call
result_text(res) ==
    IF res.success THEN res.output
    ELSE IF res.error # <<>> THEN res.error ELSE res.output

\* format!("Tool '{}' result: {}", tool_call.name, result_text)
observation(name, text) == <<"Tool '", name, "' result: ">> \o text

\* the observation written over the last message of the history
OnToolResultOverwrites(s, res) ==
    LoopPass([s EXCEPT
        !.conversation_history =
            [@ EXCEPT ![Len(@)] =
                Message("assistant",
                        observation(s.pending.name, result_text(res)))],
        !.executions = Append(@, [name |-> s.pending.name,
                                  success |-> res.success,
                                  level |-> s.gate.level,
                                  res |-> res]),
        !.gate = [@ EXCEPT !.executed = TRUE]])

\* the observation appended as a user message
OnToolResultAsUser(s, res) ==
    LoopPass([s EXCEPT
        !.conversation_history =
            Append(@, Message("user",
                              observation(s.pending.name, result_text(res)))),
        !.executions = Append(@, [name |-> s.pending.name,
                                  success |-> res.success,
                                  level |-> s.gate.level,
                                  res |-> res]),
        !.gate = [@ EXCEPT !.executed = TRUE]])

\* a failing action result returned as the result of the run
OnToolResultFailureEnds(s, res) ==
    LET s1 == [s EXCEPT
                 !.conversation_history =
                     Append(@, Message("assistant",
                                       observation(s.pending.name,
                                                   result_text(res)))),
                 !.executions = Append(@, [name |-> s.pending.name,
                                           success |-> res.success,
                                           level |-> s.gate.level,
                                           res |-> res]),
                 !.gate = [@ EXCEPT !.executed = TRUE]]
    IN  IF res.success THEN LoopPass(s1)
        ELSE [s1 EXCEPT !.pc = "done",
                        !.result = OkResult(FALSE, result_text(res),
                                            s.iteration_count, s.tool_calls)]

\* execute_tool_call and run(): from the tool's result to the next model call
OnToolResult(s, res) ==
    LoopPass([s EXCEPT
        !.conversation_history =
            Append(@, Message("assistant",
                              observation(s.pending.name, result_text(res)))),
        !.executions = Append(@, [name |-> s.pending.name,
                                  success |-> res.success,
                                  level |-> s.gate.level,
                                  res |-> res]),
        !.gate = [@ EXCEPT !.executed = TRUE]])

\* ------------------------------------------------------------ actions
\* the caller calls agent.run(task)
Run ==
    /\ pc \in {"idle", "done"}
    /\ runs < MaxRuns
    /\ \E task \in Tasks : Becomes(RunStart(State, task))

\* self.model.chat(..) returns a response
ModelResponds ==
    /\ pc = "chat"
    /\ total_calls < MaxCalls
    /\ \E content \in Responses : Becomes(OnResponse(State, content))

\* the error of the model call noted and the loop going on to another call
ModelFailsContinues ==
    /\ pc = "chat"
    /\ total_calls < MaxCalls
    /\ Becomes(LoopPass([State EXCEPT !.model_calls = @ + 1,
                                      !.total_calls = @ + 1,
                                      !.result = ErrResult("Model", <<>>)]))

\* self.model.chat(..) fails: the ? operator returns the error
ModelFails ==
    /\ pc = "chat"
    /\ total_calls < MaxCalls
    /\ Becomes([State EXCEPT !.pc = "done", !.model_calls = @ + 1,
                             !.total_calls = @ + 1,
                             !.result = ErrResult("Model", <<>>)])

\* prompt_for_permission returns Ok(allowed)
PromptReply ==
    /\ pc = "prompt"
    /\ \E reply \in Replies : Becomes(OnPromptReply(State, reply))

\* prompt_for_permission returns Err: mapped to PromptLineError::Other
PromptFails ==
    /\ pc = "prompt"
    /\ Becomes([State EXCEPT !.pc = "done",
                             !.gate = [@ EXCEPT !.prompted = @ + 1],
                             !.result = ErrResult("Other", <<>>)])

\* tools.execute(..) runs the capability and returns its ToolResult
ToolReturns ==
    /\ pc = "execute"
    /\ pending.name \in Registered
    /\ \E res \in ToolResults : Becomes(OnToolResult(State, res))

\* the registry's error turned into a failing run result
ToolNotFoundReturned ==
    /\ pc = "execute"
    /\ pending.name \notin Registered
    /\ Becomes([State EXCEPT !.pc = "done",
                             !.result = OkResult(FALSE, <<"not found">>,
                                                 iteration_count, tool_calls)])

\* tools.execute(..) finds no tool of that name: the ? operator returns Err
ToolNotFound ==
    /\ pc = "execute"
    /\ pending.name \notin Registered
    /\ Becomes([State EXCEPT !.pc = "done",
                             !.result = ErrResult("ToolNotFound",
                                                  <<pending.name>>)])

Next ==
    \/ Run
    \/ ModelResponds
    \/ ModelFails
    \/ PromptReply
    \/ PromptFails
    \/ ToolReturns
    \/ ToolNotFound

Spec == Init /\ [][Next]_vars

\* the agent that main() builds under --auto-approve
SpecAutoApprove == InitAutoApprove /\ [][Next]_vars


\* ------------------------------------------------------------ claims
IsInfix(a, b) ==
    \E i \in 0..(Len(b) - Len(a)) : SubSeq(b, i + 1, i + Len(a)) = a

NamesOf(execs) == [i \in 1..Len(execs) |-> execs[i].name]

Declined == gate.prompted > 0 /\ gate.reply \in {"no", "never"}

WasDenied == gate.validated /\ gate.outcome.kind = "Denied"

BudgetExceeded ==
    pc = "done" /\ result.kind = "err" /\ result.error = "MaxIterationsExceeded"

\* C1: an action whose capability is in state Never ends the run at once:
\* it is neither validated into execution nor handed to the registry,
\* whatever the validator says of its command.
C1_NeverNotExecuted ==
    gate.level = "Never" =>
        /\ pc = "done"
        /\ result.kind # "none"
        /\ ~gate.executed
        /\ tool_calls = NamesOf(executions)

C1_Witness ==
    /\ gate.level = "Never"
    /\ pc = "done"
    /\ validate_command(command_str(pending)).kind = "Allowed"

\* C2: when the validator answers Denied(reason) the capability is not
\* executed and run() returns a run result whose output holds the reason.
C2_DeniedReasonInOutput ==
    WasDenied =>
        /\ pc = "done"
        /\ ~gate.executed
        /\ result.kind = "ok"
        /\ IsInfix(gate.outcome.reason, result.output)

\* C3: a capability is handed to the registry only after the validator has
\* judged, in the same iteration, the action's name and serialized
\* arguments, and has not answered Denied; so for Always and Once too.
C3_ValidatedBeforeExecution ==
    /\ pc = "execute" =>
          /\ gate.validated
          /\ gate.iter = iteration_count
          /\ gate.cmd = <<pending.name, WS>> \o pending.args
          /\ gate.outcome.kind # "Denied"
          /\ gate.outcome = validate_command(gate.cmd)
    /\ gate.executed => gate.validated /\ gate.outcome.kind # "Denied"

C3_Witness ==
    /\ pc = "execute"
    /\ gate.level \in {"Always", "Once"}
    /\ gate.outcome.kind = "RequiresApproval"

\* C4: an interactive decline, a Never-state denial and a validator denial
\* all end run() with a returned run result of success=false, never an Err.
C4_DenialsReturned ==
    (pc = "done" /\ (gate.level = "Never" \/ Declined \/ WasDenied)) =>
        result.kind = "ok" /\ ~result.success

\* C5 (as claimed): a run that aborts with the iteration budget exceeded
\* has made max_iterations + 1 model calls.
C5_BudgetCallsPlusOne ==
    BudgetExceeded => model_calls = max_iterations + 1

\* C5 (amended): a run never makes more than max_iterations model calls, no
\* model call is in flight once that many were made, and a run that aborts
\* with the iteration budget exceeded has made exactly max_iterations.
C5_BudgetCalls ==
    /\ model_calls <= max_iterations
    /\ pc = "chat" => model_calls < max_iterations
    /\ BudgetExceeded =>
          model_calls = max_iterations /\ iteration_count = max_iterations + 1

C5_Witness ==
    BudgetExceeded /\ max_iterations = 2 /\ model_calls = 2

\* C6: each pass of the loop (the entry of run(), an action-free response, a
\* tool result) raises the counter by exactly one and no other step changes
\* it; no model call, prompt or execution is in flight while the counter is
\* above the maximum, the run having aborted when the counter went above.
C6_CounterStep ==
    [][ /\ iteration_count' =
             IF runs' # runs THEN 1
             ELSE IF plain' # plain \/ Len(executions') # Len(executions)
                  THEN iteration_count + 1
                  ELSE iteration_count
        /\ pc' \in {"chat", "prompt", "execute"} =>
             iteration_count' <= max_iterations'
        /\ iteration_count' > max_iterations' => BudgetExceeded'
      ]_vars

C6_Witness ==
    pc = "chat" /\ iteration_count = max_iterations /\ iteration_count = 2

\* C7: a run result of success=true carries the completing response as its
\* output, the number of model calls of the run as its iterations, and only
\* names of capabilities executed in the run as its tool calls.
C7_CompletionResult ==
    (pc = "done" /\ result.kind = "ok" /\ result.success) =>
        /\ is_complete(response)
        /\ result.output = response
        /\ result.iterations = model_calls
        /\ \A i \in 1..Len(result.tool_calls) :
              \E j \in 1..Len(executions) :
                 executions[j].name = result.tool_calls[i]

C7_Witness ==
    /\ pc = "done" /\ result.kind = "ok" /\ result.success
    /\ result.iterations = 2
    /\ result.tool_calls = <<"file_list">>

\* C8 (as claimed): the tool-call list of a run result has one entry per
\* execution whose action result has success=true.
C8_OnlySuccessful ==
    result.kind = "ok" =>
        result.tool_calls =
            NamesOf(SelectSeq(executions, LAMBDA e : e.success))

\* C8 (amended): the tool-call list of a run result has one entry per
\* execution that returned an action result, successful or not, in execution
\* order, duplicates kept; a run of k actions and a completion returns
\* success=true, iterations=k+1 and the k names.
C8_OnePerExecution ==
    result.kind = "ok" =>
        /\ result.tool_calls = NamesOf(executions)
        /\ result.success =>
              result.iterations = Len(result.tool_calls) + plain + 1

C8_Witness ==
    /\ result.kind = "ok" /\ result.success /\ plain = 0
    /\ result.iterations = 3
    /\ result.tool_calls = <<"file_write", "file_write">>
    /\ ~executions[1].success

\* C9: when the user declines the prompt the capability is not executed,
\* run() returns success=false, and the run makes no further model call or
\* iteration.
C9_DeclineStops ==
    Declined =>
        /\ pc = "done"
        /\ ~gate.executed
        /\ result.kind = "ok" /\ ~result.success
        /\ result.tool_calls = NamesOf(executions)
        /\ iteration_count = gate.iter
        /\ model_calls = gate.iter

C9_Witness ==
    Declined /\ gate.reply = "no" /\ pc = "done" /\ gate.iter = 2

\* C10: the invocation that finds a capability in state Once leaves it in
\* state Ask, and an action that finds its capability in state Ask reaches
\* the registry only after one prompt that the user accepted.
C10_OnceThenAsk ==
    /\ gate.level = "Once" => permissions[pending.name] = "Ask"
    /\ (pc = "execute" /\ gate.level = "Ask") =>
          gate.prompted = 1 /\ gate.reply \in {"always", "once"}

C10_Witness ==
    /\ pc = "execute" /\ gate.level = "Ask" /\ gate.prompted = 1
    /\ Len(executions) = 1
    /\ executions[1].level = "Once"
    /\ executions[1].name = pending.name


\* C11: a decline of the prompt that is not "never" leaves the capability
\* in state Ask and changes no capability's permission state.
C11_DeclineKeepsAsk ==
    [][ (pc = "prompt" /\ gate'.reply = "no") =>
            /\ permissions' = permissions
            /\ permissions'[pending.name] = "Ask"
      ]_vars

C11_Witness ==
    /\ pc = "done" /\ gate.prompted = 1 /\ gate.reply = "no"
    /\ permissions[pending.name] = "Ask"
    /\ \E n \in Names : permissions[n] = "Always"

\* C12: an action is prompted for at most once, and only by the Ask arm
\* before the validation: a RequiresApproval outcome prompts nobody.
C12_OnePrompt ==
    /\ gate.prompted <= 1
    /\ gate.prompted = 1 => gate.level = "Ask"
    /\ pc = "prompt" => gate.prompted = 0 /\ ~gate.validated
    /\ (gate.validated /\ gate.outcome.kind = "RequiresApproval"
          /\ gate.level # "Ask") => gate.prompted = 0

C12_Witness ==
    /\ pc = "execute" /\ gate.outcome.kind = "RequiresApproval"
    /\ gate.level = "Ask" /\ gate.prompted = 1

\* C13: with require_approval = false no action for a registered capability
\* is prompted for.
C13_AutoApproveNeverPrompts ==
    (~require_approval /\ pending.name \in Registered) =>
        pc # "prompt" /\ gate.prompted = 0


Unregistered == pending # NoCall /\ pending.name \notin Registered

\* C14 (as claimed): a run that ends on an action naming an unregistered
\* capability ends with the capability-not-found error, not with a run
\* result; stated for the actions that neither a Never state nor a Denied
\* outcome stops.
C14_UnregisteredIsNotFound ==
    (pc = "done" /\ Unregistered /\ gate.level # "Never" /\ ~WasDenied) =>
        result.kind = "err" /\ result.error = "ToolNotFound"

\* C14 (amended): an action naming an unregistered capability that the
\* permission gate and the validator let through ends run() with the
\* capability-not-found error, and nothing is executed for such an action.
C14_NotFoundAfterGate ==
    /\ (pc = "done" /\ Unregistered /\ gate.validated
          /\ gate.outcome.kind # "Denied") =>
          result.kind = "err" /\ result.error = "ToolNotFound"
    /\ Unregistered => ~gate.executed
    /\ \A i \in 1..Len(executions) : executions[i].name \in Registered

C14_Witness ==
    /\ pc = "done" /\ Unregistered
    /\ gate.level = "Ask" /\ gate.prompted = 1
    /\ result.error = "ToolNotFound"

\* C15: a failed model call ends run() in that step with the model's error:
\* no history append, permission check, execution or new pass goes with it,
\* and nothing follows it in the run.
C15_ModelFailureEndsRun ==
    [][ result'.error = "Model" =>
            /\ pc' = "done"
            /\ result'.kind = "err"
            /\ result.error # "Model" =>
                  /\ pc = "chat"
                  /\ model_calls' = model_calls + 1
                  /\ conversation_history' = conversation_history
                  /\ iteration_count' = iteration_count
                  /\ executions' = executions
                  /\ tool_calls' = tool_calls
                  /\ permissions' = permissions
                  /\ gate' = gate
      ]_vars

C15_Witness ==
    /\ pc = "done" /\ result.error = "Model"
    /\ model_calls = 2 /\ Len(executions) = 1

\* C16: every step leaves the messages already in the history in place and
\* unchanged: the history only grows at its end.
C16_HistoryAppendOnly ==
    [][ /\ Len(conversation_history') >= Len(conversation_history)
        /\ SubSeq(conversation_history', 1, Len(conversation_history))
              = conversation_history
      ]_vars

C16_Witness ==
    /\ pc = "chat" /\ Len(conversation_history) = 4
    /\ Len(executions) = 1 /\ plain = 1

Appended ==
    SubSeq(conversation_history', Len(conversation_history) + 1,
           Len(conversation_history'))

\* C17: the entry of run() appends the system prompt and then the user task
\* before any model call of the run; every other step appends assistant
\* messages only, so the history holds one user message per run.
C17_RolesOfAppends ==
    [][ /\ IF runs' # runs
           THEN /\ \E task \in Tasks :
                      Appended = << Message("system", build_system_prompt),
                                    Message("user", task) >>
                /\ model_calls' = 0
           ELSE \A i \in 1..Len(Appended) : Appended[i].role = "assistant"
        /\ Cardinality({ i \in 1..Len(conversation_history') :
                           conversation_history'[i].role = "user" }) = runs'
      ]_vars

C17_Witness ==
    /\ Len(conversation_history) = 4 /\ runs = 1
    /\ conversation_history[1].role = "system"
    /\ conversation_history[2].role = "user"
    /\ conversation_history[3].content[1] = "Tool '"
    /\ conversation_history[4].content = <<"thinking">>


\* the number of "tool:" keys in a text: its action-looking spans
ToolKeys(content) ==
    Cardinality({ i \in 1..Len(content) : content[i] = "tool:" })

\* C18: the steps of an iteration come one after the other and once each:
\* the model call of iteration n is the n-th of the run, a prompt or an
\* execution belongs to the iteration whose call was answered last, every
\* answered call leads to at most one history append and at most one
\* execution, and a response adds at most one name to the tool calls,
\* however many action-looking spans it holds.
C18_OnePerIteration ==
    /\ pc = "chat" =>
          /\ model_calls = iteration_count - 1
          /\ Len(executions) + plain = model_calls
    /\ pc \in {"prompt", "execute"} =>
          /\ model_calls = iteration_count
          /\ gate.iter = iteration_count
          /\ Len(executions) + plain = model_calls - 1
    /\ Len(executions) + plain <= model_calls
    /\ Len(tool_calls) <= Len(executions) + 1
    /\ Len(tool_calls) = Len(executions) + 1 =>
          (pc = "execute" \/ (pc = "done" /\ result.error = "ToolNotFound"))
    /\ Len(conversation_history) <= 2 * runs + total_calls
    /\ (runs = 1 /\ pc # "done") =>
          Len(conversation_history) = 2 + Len(executions) + plain

C18_Witness ==
    /\ pc = "chat" /\ model_calls = 2
    /\ ToolKeys(response) = 2
    /\ Len(executions) = 1 /\ plain = 1 /\ tool_calls = <<"file_list">>


\* ------------------------------------- Agent::inject_file_content
\* the call of inject_file_content in run() is commented out (mod.rs:100);
\* SpecInject is the loop with that call in place, on responses that neither
\* complete the task nor hold an action

\* the model answers at most MaxInjectCalls chat requests under SpecInject
MaxInjectCalls == 3

\* let max_inject_tokens = 1000
max_inject_tokens == 1000

\* chars_to_keep = max_inject_tokens * 4
chars_per_token == 4

\* path-like tokens with a recognized extension
Paths == {"a.rs", "b.md"}

\* what may stand before a path: the start of a line, whitespace, a quote or
\* a backtick
PathLead == {WS, "<newline>", "<quote>", "<backtick>"}

\* the regex matches the token at position i of the response
IsPathMatch(content, i) ==
    content[i] \in Paths /\ (i = 1 \/ content[i - 1] \in PathLead)

\* format!("File content of {}:\n<fence>", file_path)
FileTag(path) == <<"File content of ", path, ":", "<newline>", "<fence>">>

\* format!("File content of {}:\n<fence>\n{}\n<fence>", file_path,
\* content_to_inject)
FileMessage(path, content) ==
    FileTag(path) \o <<"<newline>">> \o content \o <<"<newline>", "<fence>">>

\* LanguageModel::estimate_tokens: about one token per four characters
estimate_tokens(content) == (Len(content) + chars_per_token - 1) \div chars_per_token

\* content_to_inject after the truncation to the token budget
content_to_inject(output) ==
    IF estimate_tokens(output) > max_inject_tokens
    THEN SubSeq(output, 1, max_inject_tokens * chars_per_token)
            \o <<"<newline>", "... (content truncated due to length)">>
    ELSE output

\* the duplicate test looking at the last message of the history only
AlreadyInjectedLastOnly(history, path) ==
    history # <<>> /\ IsInfix(FileTag(path), history[Len(history)].content)

\* conversation_history.iter().any(|msg| msg.content.contains(tag))
AlreadyInjected(history, path) ==
    \E i \in 1..Len(history) : IsInfix(FileTag(path), history[i].content)

\* what FileReadTool::execute can return for a path
FileReads ==
    { [success |-> TRUE, output |-> <<"fn", WS, "main">>],
      [success |-> TRUE, output |-> FileTag("b.md")],
      [success |-> FALSE, output |-> <<>>] }

\* the body of the for loop for one match; fs is the file system read
inject_one(history, path, fs) ==
    IF AlreadyInjected(history, path) THEN history
    ELSE IF fs[path].success
         THEN Append(history,
                     Message("system",
                             FileMessage(path,
                                         content_to_inject(fs[path].output))))
         ELSE history

\* Agent::inject_file_content: the matches of the response from position i on
RECURSIVE inject_from(_, _, _, _)
inject_from(history, content, i, fs) ==
    IF i > Len(content) THEN history
    ELSE inject_from(IF IsPathMatch(content, i)
                     THEN inject_one(history, content[i], fs)
                     ELSE history,
                     content, i + 1, fs)

inject_file_content(history, content, fs) == inject_from(history, content, 1, fs)

\* responses that mention files
InjectResponses ==
    { <<"see", WS, "a.rs">>,
      <<"a.rs", WS, "a.rs">>,
      <<"<backtick>", "b.md", "<backtick>", WS, "a.rs">>,
      <<"(", "a.rs", ")">>,
      <<"thinking">> }

InitInject ==
    /\ max_iterations = MaxInjectCalls
    /\ require_approval = TRUE
    /\ permissions = [n \in Names |-> "Ask"]
    /\ iteration_count = 1
    /\ conversation_history = <<>>
    /\ tool_calls = <<>>
    /\ pc = "chat"
    /\ pending = NoCall
    /\ response = <<>>
    /\ result = NoResult
    /\ gate = NoGate
    /\ model_calls = 0
    /\ executions = <<>>
    /\ plain = 0
    /\ runs = 1
    /\ total_calls = 0
    /\ input = <<>>
    /\ command = NotParsed

\* one iteration: the response's files are injected, then the response is
\* appended as an assistant message
InjectStep ==
    /\ pc = "chat"
    /\ total_calls < MaxInjectCalls
    /\ \E content \in InjectResponses, fs \in [Paths -> FileReads] :
          /\ conversation_history' =
                Append(inject_file_content(conversation_history, content, fs),
                       Message("assistant", content))
          /\ response' = content
    /\ total_calls' = total_calls + 1
    /\ model_calls' = model_calls + 1
    /\ plain' = plain + 1
    /\ iteration_count' = iteration_count + 1
    /\ UNCHANGED <<max_iterations, require_approval, permissions, tool_calls,
                   pc, pending, result, gate, executions, runs, input,
                   command>>

NextInject == InjectStep

SpecInject == InitInject /\ [][NextInject]_vars

IsPrefix(a, b) == Len(a) <= Len(b) /\ SubSeq(b, 1, Len(a)) = a

\* the messages injected for a path
InjectedFor(path) ==
    { i \in 1..Len(conversation_history) :
        /\ conversation_history[i].role = "system"
        /\ IsPrefix(FileTag(path), conversation_history[i].content) }

\* C19: the history holds at most one injected file-content system message
\* per path, however often responses mention the path.
C19_InjectedOnce ==
    \A path \in Paths : Cardinality(InjectedFor(path)) <= 1

C19_Witness ==
    /\ total_calls = 3
    /\ InjectedFor("a.rs") = {1}
    /\ response = <<"a.rs", WS, "a.rs">>
    /\ Cardinality({ i \in 1..Len(conversation_history) :
                       /\ conversation_history[i].role = "assistant"
                       /\ Contains(conversation_history[i].content, "a.rs") })
          = 3


\* ------------------------------------------- CommandHandler::parse
\* an input line is a sequence of characters; it has at most MaxInput
MaxInput == 5

\* the characters of the input lines: whitespace, the slash, letters in both
\* cases
Chars == {WS, "/", "h", "H", "e", "l", "p"}

Inputs == UNION { [1..n -> Chars] : n \in 0..MaxInput }

\* a lower-casing that leaves every character as it is
to_lowercase_identity(c) == c

\* str::to_lowercase, character by character
to_lowercase(c) == IF c = "H" THEN "h" ELSE c

ToLowercase(t) == [i \in 1..Len(t) |-> to_lowercase(t[i])]

\* the arms of the match in CommandHandler::parse
HelpArm == { <<"/", "h", "e", "l", "p">>, <<"/", "h">> }
SettingsArm ==
    { <<"/", "s", "e", "t", "t", "i", "n", "g", "s">>,
      <<"/", "c", "o", "n", "f", "i", "g">> }
ClearArm == { <<"/", "c", "l", "e", "a", "r">>, <<"/", "n", "e", "w">> }
StatusArm == { <<"/", "s", "t", "a", "t", "u", "s">> }
ModelArm == { <<"/", "m", "o", "d", "e", "l">> }
PermissionsArm ==
    { <<"/", "p", "e", "r", "m", "i", "s", "s", "i", "o", "n", "s">>,
      <<"/", "p", "e", "r", "m", "s">> }
QuitArm ==
    { <<"/", "q", "u", "i", "t">>, <<"/", "e", "x", "i", "t">>, <<"/", "q">> }
VersionArm ==
    { <<"/", "v", "e", "r", "s", "i", "o", "n">>, <<"/", "v">> }

\* match trimmed.to_lowercase().as_str() { .. }
MatchCommand(t) ==
    IF t \in HelpArm THEN "Help"
    ELSE IF t \in SettingsArm THEN "Settings"
    ELSE IF t \in ClearArm THEN "Clear"
    ELSE IF t \in StatusArm THEN "Status"
    ELSE IF t \in ModelArm THEN "Model"
    ELSE IF t \in PermissionsArm THEN "Permissions"
    ELSE IF t \in QuitArm THEN "Quit"
    ELSE IF t \in VersionArm THEN "Version"
    ELSE NoCommand

\* CommandHandler::parse
parse(line) ==
    LET trimmed == Trim(line)
    IN  IF trimmed = <<>> \/ Head(trimmed) # "/" THEN NoCommand
        ELSE MatchCommand(ToLowercase(trimmed))

\* the commands and aliases that CommandHandler::help shows, with the
\* command each stands for
HelpListed ==
    { [name |-> <<"/", "h", "e", "l", "p">>, command |-> "Help"],
      [name |-> <<"/", "s", "e", "t", "t", "i", "n", "g", "s">>,
       command |-> "Settings"],
      [name |-> <<"/", "c", "l", "e", "a", "r">>, command |-> "Clear"],
      [name |-> <<"/", "s", "t", "a", "t", "u", "s">>, command |-> "Status"],
      [name |-> <<"/", "m", "o", "d", "e", "l">>, command |-> "Model"],
      [name |-> <<"/", "p", "e", "r", "m", "i", "s", "s", "i", "o", "n", "s">>,
       command |-> "Permissions"],
      [name |-> <<"/", "q", "u", "i", "t">>, command |-> "Quit"],
      [name |-> <<"/", "v", "e", "r", "s", "i", "o", "n">>,
       command |-> "Version"],
      [name |-> <<"/", "h">>, command |-> "Help"],
      [name |-> <<"/", "q">>, command |-> "Quit"],
      [name |-> <<"/", "v">>, command |-> "Version"],
      [name |-> <<"/", "p", "e", "r", "m", "s">>, command |-> "Permissions"] }

\* an idle agent and a line that has not been parsed
InitCommands ==
    /\ max_iterations = 1
    /\ require_approval = TRUE
    /\ permissions = [n \in Names |-> "Ask"]
    /\ iteration_count = 0
    /\ conversation_history = <<>>
    /\ tool_calls = <<>>
    /\ pc = "idle"
    /\ pending = NoCall
    /\ response = <<>>
    /\ result = NoResult
    /\ gate = NoGate
    /\ model_calls = 0
    /\ executions = <<>>
    /\ plain = 0
    /\ runs = 0
    /\ total_calls = 0
    /\ input \in Inputs
    /\ command = NotParsed

\* CommandHandler::parse(input)
Parse ==
    /\ command = NotParsed
    /\ command' = parse(input)
    /\ UNCHANGED <<max_iterations, require_approval, permissions,
                   iteration_count, conversation_history, tool_calls, pc,
                   pending, response, result, gate, model_calls, executions,
                   plain, runs, total_calls, input>>

NextCommands == Parse

SpecCommands == InitCommands /\ [][NextCommands]_vars

\* the names the match of parse lists
ListedNames ==
    HelpArm \cup SettingsArm \cup ClearArm \cup StatusArm \cup ModelArm
        \cup PermissionsArm \cup QuitArm \cup VersionArm

\* the line is the name, in any case, between runs of whitespace
SpellsName(line, name) ==
    \E i \in 1..(Len(line) + 1) :
        /\ i + Len(name) - 1 <= Len(line)
        /\ \A k \in 1..(i - 1) : line[k] = WS
        /\ \A k \in (i + Len(name))..Len(line) : line[k] = WS
        /\ \A k \in 1..Len(name) :
              line[i + k - 1] = name[k] \/ (line[i + k - 1] = "H" /\ name[k] = "h")

\* C21: parse returns a command exactly when the line, without the
\* whitespace around it and in lower case, is one of the names of its match,
\* and then the command of that name; a line that does not start with a
\* slash gives None; every name and alias the help text shows is accepted
\* as the command it is shown for.
C21_ParseCommands ==
    /\ command # NotParsed =>
          /\ command # NoCommand <=> \E n \in ListedNames : SpellsName(input, n)
          /\ \A n \in HelpArm : SpellsName(input, n) => command = "Help"
          /\ (\A i \in 1..Len(input) : input[i] # "/") => command = NoCommand
          /\ (\E i \in 1..Len(input) :
                 /\ input[i] \notin {WS, "/"}
                 /\ \A k \in 1..(i - 1) : input[k] = WS) => command = NoCommand
    /\ \A h \in HelpListed : MatchCommand(h.name) = h.command

C21_Witness ==
    /\ command = "Help"
    /\ input = <<WS, "/", "H", WS>>


\* ------------------------------------------------ claims on responses
\* the last response of the run neither completes the task nor holds an
\* action that parse_tool_call returns
NoActionFound ==
    /\ response # <<>>
    /\ ~is_complete(response)
    /\ parse_tool_call(response).name \notin Strs

\* C22: a response that does not complete the task and from which no action
\* can be extracted is no error: it is appended to the history as one
\* assistant message and the run goes on; the run neither returns on it nor
\* is it unwound.
C22_NoActionIsAppended ==
    NoActionFound =>
        /\ pc # "panicked"
        /\ result.kind # "panic"
        /\ conversation_history[Len(conversation_history)]
              = Message("assistant", response)


\* ------------------------------------- the first iteration on any text
\* a free text of the model has at most MaxTextLen tokens
MaxTextLen == 3

\* the tokens of the free texts: whitespace, the completion token and the
\* completion phrase, a word in lower case, another word, the braces
TextTokens == {WS, "FINISH", "finish", "task is complete", "x", "{", "}"}

ShortTexts == UNION { [1..n -> TextTokens] : n \in 0..MaxTextLen }

\* the responses that hold an action, as they are and with words around them
ActionTexts ==
    { head \o r \o tail :
        head \in { <<>>, <<"task is complete", WS>> },
        r \in { t \in Responses : Contains(t, "tool:") },
        tail \in { <<>>, <<WS, "FINISH">>, <<"FINISH", WS, WS>>,
                   <<"FINISH", WS, "x">>, <<WS, "finish">> } }

Texts == ShortTexts \cup ActionTexts

\* an idle agent whose capabilities are all in one state
InitText ==
    /\ max_iterations \in 1..MaxIter
    /\ require_approval = TRUE
    /\ permissions \in { [n \in Names |-> l] : l \in Levels }
    /\ iteration_count = 0
    /\ conversation_history = <<>>
    /\ tool_calls = <<>>
    /\ pc = "idle"
    /\ pending = NoCall
    /\ response = <<>>
    /\ result = NoResult
    /\ gate = NoGate
    /\ model_calls = 0
    /\ executions = <<>>
    /\ plain = 0
    /\ runs = 0
    /\ total_calls = 0
    /\ input = <<>>
    /\ command = NotParsed

\* the caller calls agent.run(task) on a fresh agent
RunOnce ==
    /\ pc = "idle"
    /\ \E task \in Tasks : Becomes(RunStart(State, task))

\* the first self.model.chat(..) of the run returns a text
ModelRespondsText ==
    /\ pc = "chat"
    /\ model_calls = 0
    /\ \E content \in Texts : Becomes(OnResponse(State, content))

NextText ==
    \/ RunOnce
    \/ ModelRespondsText
    \/ PromptReply
    \/ PromptFails
    \/ ToolReturns
    \/ ToolNotFound

SpecText == InitText /\ [][NextText]_vars

\* the text ends with the completion token once the whitespace after it is
\* set aside
EndsWithFinish(content) ==
    \E i \in 1..Len(content) :
        /\ content[i] = "FINISH"
        /\ \A j \in (i + 1)..Len(content) : content[j] = WS

\* the text holds the completion phrase, anywhere
HoldsPhrase(content) ==
    \E i \in 1..Len(content) : content[i] = "task is complete"

\* C23: the completion predicate is true of a response exactly when the
\* text ends with FINISH once trimmed or holds the phrase "task is complete"
\* anywhere, and the run returns success=true on a response exactly when
\* the predicate is true of it.
C23_CompletionPredicate ==
    model_calls = 1 =>
        /\ is_complete(response) <=>
              (EndsWithFinish(response) \/ HoldsPhrase(response))
        /\ (result.kind = "ok" /\ result.success) <=>
              (EndsWithFinish(response) \/ HoldsPhrase(response))
        /\ (result.kind = "ok" /\ result.success) =>
              pc = "done" /\ result.output = response

C23_Witness ==
    /\ pc = "done" /\ result.kind = "ok" /\ result.success
    /\ response = <<"task is complete", WS, "x">>


\* ------------------------------------------------ handle_chat
\* the position of the last message of the role in the history, 0 if none
LastOfRole(history, role) ==
    IF \E i \in 1..Len(history) : history[i].role = role
    THEN CHOOSE i \in 1..Len(history) :
            /\ history[i].role = role
            /\ \A j \in (i + 1)..Len(history) : history[j].role # role
    ELSE 0

\* handle_chat: agent.conversation_history.iter().rev()
\*     .find(|msg| msg.role == "assistant").map(|msg| msg.content.as_str())
\*     .unwrap_or(&result.output)
last_response(history, output) ==
    LET i == LastOfRole(history, "assistant")
    IN  IF i = 0 THEN output ELSE history[i].content

\* C24: after a run that returned Ok, the text that chat mode takes from the
\* history was put there by that run: the last assistant message, if there
\* is one, stands after the user message of the run.
C24_ShownIsOfThisRun ==
    (pc = "done" /\ result.kind = "ok") =>
        \/ LastOfRole(conversation_history, "assistant") = 0
        \/ LastOfRole(conversation_history, "assistant")
              > LastOfRole(conversation_history, "user")


\* the last response of the run holds a well-formed action
HoldsAction == parse_tool_call(response).name \in Strs

\* C25: a response that holds a well-formed action and of which the
\* completion predicate is true ends the run with success=true in that
\* step: no permission is checked or used up for the action, nobody is
\* prompted, the validator is not consulted and nothing is executed (the
\* capabilities start in one state, so a grant used up would show).
C25_CompletionBeforeAction ==
    (model_calls = 1 /\ HoldsAction /\ is_complete(response)) =>
        /\ pc = "done"
        /\ result = OkResult(TRUE, response, 1, <<>>)
        /\ gate = NoGate
        /\ pending = NoCall
        /\ executions = <<>>
        /\ \A n, m \in Names : permissions[n] = permissions[m]

C25_Witness ==
    /\ pc = "done" /\ result.kind = "ok" /\ result.success
    /\ response = <<"{", "tool:", "file_write", "args:", "rm-rf", "}",
                    WS, "FINISH">>
    /\ permissions["file_write"] = "Once"


\* ------------------------------------------------ claims on the gate
\* the execution that returned last in this run
LastExecution == executions[Len(executions)]

\* the action of the last response was executed and the model has not been
\* called since
JustExecuted == gate.executed /\ model_calls = gate.iter

\* C26: an execution that returns success=false does not end the run with
\* a result: the observation appended as an assistant message carries the
\* error text, or the output when no error is set, the pass is counted, and
\* the next model call is made unless the iteration budget is used up.
C26_FailedExecutionGoesOn ==
    (JustExecuted /\ ~LastExecution.res.success) =>
        /\ result.kind # "ok"
        /\ IF gate.iter < max_iterations THEN pc = "chat" ELSE BudgetExceeded
        /\ iteration_count = gate.iter + 1
        /\ conversation_history[Len(conversation_history)] =
              Message("assistant",
                      <<"Tool '", LastExecution.name, "' result: ">> \o
                          (IF LastExecution.res.error # <<>>
                           THEN LastExecution.res.error
                           ELSE LastExecution.res.output))

C26_Witness ==
    /\ JustExecuted /\ pc = "chat"
    /\ Len(executions) = 2
    /\ LastExecution.res.error = <<>> /\ ~LastExecution.res.success
    /\ executions[1].res.error = <<"failed">>


\* C27: the validator is consulted only after the permission gate: never
\* while the prompt of an action in state Ask is open, only after an
\* accepting reply for such an action, and not at all for an action in
\* state Never or one whose prompt was declined or failed; a command the
\* validator denies is prompted for first when its capability is in Ask.
C27_PromptBeforeValidator ==
    /\ pc = "prompt" => gate.level = "Ask" /\ ~gate.validated
    /\ gate.level = "Never" => ~gate.validated /\ gate.prompted = 0
    /\ (gate.level = "Ask" /\ gate.validated) =>
          gate.prompted = 1 /\ gate.reply \in {"always", "once"}
    /\ (gate.level = "Ask" /\ gate.reply \notin {"always", "once"}) =>
          ~gate.validated
    /\ (gate.level = "Ask" /\ pending # NoCall /\ pc # "prompt"
          /\ validate_command(command_str(pending)).kind = "Denied") =>
          gate.prompted = 1

C27_Witness ==
    /\ gate.level = "Ask" /\ gate.prompted = 1 /\ gate.reply = "once"
    /\ WasDenied
    /\ pc = "done" /\ result.error = "Safety"


\* ------------------------------------------------ claims on runs
\* the number of messages of the role in the history
CountOfRole(role) ==
    Cardinality({ i \in 1..Len(conversation_history) :
                    conversation_history[i].role = role })

\* C28: the history outlives the runs: after k calls of run() it holds k
\* system and k user messages, the messages of the first run in their
\* places, and a run starts its counter from zero, its first pass making
\* the counter one.
C28_HistoryKeptAcrossRuns ==
    /\ CountOfRole("system") = runs
    /\ CountOfRole("user") = runs
    /\ Len(conversation_history) >= 2 * runs
    /\ runs >= 1 =>
          /\ conversation_history[1].role = "system"
          /\ conversation_history[2].role = "user"
    /\ (pc = "chat" /\ model_calls = 0) => iteration_count = 1
    /\ Len(conversation_history) - 2 * runs <= total_calls

C28_Witness ==
    /\ runs = 2 /\ pc = "chat" /\ model_calls = 0 /\ iteration_count = 1
    /\ Len(conversation_history) = 6
    /\ conversation_history[3].role = "assistant"
    /\ conversation_history[4].role = "assistant"
    /\ conversation_history[5].role = "system"


\* ------------------------------------------------ termination of a run
\* one run of a fresh agent whose capabilities are all in one state
NextRun ==
    \/ RunOnce
    \/ ModelResponds
    \/ ModelFails
    \/ PromptReply
    \/ PromptFails
    \/ ToolReturns
    \/ ToolNotFound

\* every model call, every prompt and every execution returns
Returns ==
    /\ WF_vars(ModelResponds \/ ModelFails)
    /\ WF_vars(PromptReply \/ PromptFails)
    /\ WF_vars(ToolReturns \/ ToolNotFound)

SpecRun == InitText /\ [][NextRun]_vars /\ Returns

\* run() is suspended at a model call, a prompt or an execution
InFlight == pc \in {"chat", "prompt", "execute"}

\* run() has returned or was unwound
Ended == pc \in {"done", "panicked"}

\* C29: a run makes at most max_iterations model calls, executions and
\* appends of the loop, all taken together, and a run that is suspended at
\* a model call, a prompt or an execution ends whenever each of these
\* returns.
C29_RunEnds ==
    /\ [](/\ model_calls <= max_iterations
          /\ Len(executions) + plain <= model_calls
          /\ Len(conversation_history) <= 2 + max_iterations
          /\ Len(conversation_history) = 2 * runs + Len(executions) + plain)
    /\ [](InFlight => <>Ended)

C29_Witness ==
    /\ BudgetExceeded /\ max_iterations = 3
    /\ Len(executions) = 2 /\ plain = 1
    /\ Len(conversation_history) = 5

====
